---- MODULE Spec2Model ----
(***************************************************************************)
(* Model of the solderless-microlab hardware facade (MicroLabHardware),    *)
(* the simulated temperature controller it drives, and the recipe task     *)
(* coroutines (heat, cool, maintain_heat, maintain_cool, maintain_pid,     *)
(* stir, pump) that run against the facade.                                *)
(*                                                                         *)
(* Temperatures are kept in tenths of a degree Celsius (the simulated      *)
(* controller moves in steps of 1.0 and 0.1), time in whole seconds.       *)
(***************************************************************************)
EXTENDS Integers, Sequences, FiniteSets, TLC

VARIABLES
    hw,        \* the devices behind the facade and the commands they received
    clock,     \* time.monotonic(), start_time and config.hardwareSpeedup
    task,      \* the task being pulled by the scheduler: kind and parameters
    run,       \* the task's own progress: position, start, last yield, PID state
    facade,    \* the MicroLabHardware object: state, error, devices, role bindings
    api        \* the recipes known, the recipe files, the last route's response

vars == <<hw, clock, task, run, facade, api>>

----------------------------------------------------------------------------
(* Bounds of the model *)

\* the monotonic clock stops advancing here
MaxNow == 3
\* get_temp calls in one behaviour
MaxReads == 3

----------------------------------------------------------------------------
(* SimulatedTempController: flags, temperature *)

\* the temperature a controller starts at when no 'temp' is configured
DefaultTemp == 240

\* the value get_temp takes for "not yet initialised"
UnsetTemp == -10

\* the temperature the idle controller drifts to
AmbientTemp == 240

\* a command arriving at a device is appended to the device's log
Log(h, cmd) == [h EXCEPT !.sent = Append(@, cmd)]

\* turn_heater_on that logs but leaves the heater flag as it is
tc_turn_heater_on_flagless(h) == Log(h, "heater_on")

tc_turn_heater_on(h) == [Log(h, "heater_on") EXCEPT !.heating = TRUE]

\* turn_heater_off that logs but leaves the heater flag as it is
tc_turn_heater_off_flagless(h) == Log(h, "heater_off")

tc_turn_heater_off(h) == [Log(h, "heater_off") EXCEPT !.heating = FALSE]

tc_turn_heater_pump_on(h) == [Log(h, "heater_pump_on") EXCEPT !.heaterPump = TRUE]

tc_turn_heater_pump_off(h) == [Log(h, "heater_pump_off") EXCEPT !.heaterPump = FALSE]

\* turn_cooler_on that logs but leaves the cooler flag as it is
tc_turn_cooler_on_flagless(h) == Log(h, "cooler_on")

tc_turn_cooler_on(h) == [Log(h, "cooler_on") EXCEPT !.cooling = TRUE]

\* turn_cooler_off that logs but leaves the cooler flag as it is
tc_turn_cooler_off_flagless(h) == Log(h, "cooler_off")

tc_turn_cooler_off(h) == [Log(h, "cooler_off") EXCEPT !.cooling = FALSE]

\* The stored temperature is a double.  It is kept as a pair <<k, d>>: k is the
\* temperature to the nearest tenth of a degree, in tenths, and d is what the double
\* differs from k/10 by, in units of 1/(10 * 2^56) degree, so that the double is
\* exactly (k * 2^56 + d) / (10 * 2^56).  hw.temperature is k and hw.err is d.

\* 2^p modulo 5
Pow2Mod5(p) == CASE p % 4 = 0 -> 1 [] p % 4 = 1 -> 2 [] p % 4 = 2 -> 4 [] OTHER -> 3

\* the binary exponent j of a magnitude of a tenths and dd units:
\* 2^j <= magnitude < 2^(j+1), for magnitudes from 0.0625 to 128 degrees.  A magnitude
\* that falls short of a power of two by its units belongs to the exponent below
temp_exponent(a, dd) ==
    LET e == IF a >= 640 THEN 6 ELSE IF a >= 320 THEN 5 ELSE IF a >= 160 THEN 4
             ELSE IF a >= 80 THEN 3 ELSE IF a >= 40 THEN 2 ELSE IF a >= 20 THEN 1
             ELSE IF a >= 10 THEN 0 ELSE IF a >= 5 THEN -1 ELSE IF a >= 3 THEN -2
             ELSE IF a >= 2 THEN -3 ELSE -4
    IN  IF e >= -1 /\ a * 2 = 10 * 2^(e + 1) /\ dd < 0 THEN e - 1 ELSE e

\* The double nearest to the exact value <<k, d>>, ties to the even mantissa.  The
\* mantissa of a double of exponent j is a multiple of 2^(j - 52), that is of
\* ulp = 5 * 2^(j + 5) units; with n = j + 6, ulp = 5 * 2^(n - 1).  r2 is what the
\* magnitude a * 2^56 + dd leaves when divided by 2 * ulp (2^56 leaves what
\* 2^n * (2^(56 - n) mod 5) leaves): below ulp the mantissa is even, from ulp on odd.
temp_round_off(sgn, k, dd, ulp, r2) ==
    <<k, sgn * (IF 2 * (r2 % ulp) > ulp \/ (2 * (r2 % ulp) = ulp /\ r2 >= ulp)
                THEN dd - (r2 % ulp) + ulp
                ELSE dd - (r2 % ulp))>>

temp_round_to(sgn, k, a, dd, n, ulp) ==
    temp_round_off(sgn, k, dd, ulp,
                   (a * ((2^n * Pow2Mod5(56 - n)) % (2 * ulp)) + dd) % (2 * ulp))

temp_round_in(sgn, k, a, dd, n) == temp_round_to(sgn, k, a, dd, n, 5 * 2^(n - 1))

temp_round_signed(sgn, k, d) ==
    temp_round_in(sgn, k, sgn * k, sgn * d, temp_exponent(sgn * k, sgn * d) + 6)

\* a whole number of degrees is a double as it is
temp_round(k, d) ==
    IF k = 0 \/ (k % 10 = 0 /\ d = 0) THEN <<k, d>>
    ELSE temp_round_signed(IF k > 0 THEN 1 ELSE -1, k, d)

\* the double a literal of k tenths denotes
temp_literal(k) == temp_round(k, 0)

\* pairs of doubles, the arguments of the operations on two doubles
Doubles == (Int \X Int) \X (Int \X Int)

\* the double sum of two doubles
temp_add(x, y) ==
    [p \in Doubles |-> temp_round(p[1][1] + p[2][1], p[1][2] + p[2][2])][<<x, y>>]

\* comparisons of doubles
temp_lt(x, y) ==
    [p \in Doubles |-> p[1][1] < p[2][1] \/ (p[1][1] = p[2][1] /\ p[1][2] < p[2][2])
    ][<<x, y>>]

temp_le(x, y) ==
    [p \in Doubles |-> p[1][1] < p[2][1] \/ (p[1][1] = p[2][1] /\ p[1][2] <= p[2][2])
    ][<<x, y>>]

\* the double stored in the controller
Temp(h) == CHOOSE t \in {<<r.temperature, r.err>> : r \in {h}} : TRUE

\* SimulatedTempController(config): the temperature the controller starts at, the
\* configured 'temp' or 24 C
SimulatedTempController_init(config) ==
    IF config.hasTemp THEN config.temp ELSE DefaultTemp

\* the change get_temp applies to the stored temperature
tc_delta(h) ==
    IF h.heating THEN 10
    ELSE IF h.cooling THEN -10
    ELSE IF temp_lt(temp_literal(AmbientTemp), Temp(h)) THEN -1
    ELSE IF temp_lt(Temp(h), temp_literal(AmbientTemp)) THEN 1
    ELSE 0

\* get_temp: updates the stored temperature; the value returned is the new one.
\* The change is added as a double: temperature += delta
tc_get_temp(h) ==
    [new \in Int \X Int |->
        [h EXCEPT !.temperature = new[1], !.err = new[2], !.reads = @ + 1]
    ][IF Temp(h) = temp_literal(UnsetTemp) THEN temp_literal(DefaultTemp)
      ELSE temp_add(Temp(h), temp_literal(tc_delta(h)))]

----------------------------------------------------------------------------
(* Stirrer *)

st_turn_stirrer_on(h) == [Log(h, "stirrer_on") EXCEPT !.stirring = TRUE]

st_turn_stirrer_off(h) == [Log(h, "stirrer_off") EXCEPT !.stirring = FALSE]

----------------------------------------------------------------------------
(* MicroLabHardware: the facade operations *)

\* a facade operation is recorded, then delegates to the bound device
Call(h, op) == [h EXCEPT !.calls = Append(@, op)]

\* turn_heater_on that leaves the cooler as it is
turn_heater_on_only(h) == tc_turn_heater_on(Call(h, "turn_heater_on"))

turn_heater_on(h) == tc_turn_heater_on(tc_turn_cooler_off(Call(h, "turn_heater_on")))

\* turn_heater_off that never reaches the controller
turn_heater_off_lost(h) == Call(h, "turn_heater_off")

turn_heater_off(h) == tc_turn_heater_off(Call(h, "turn_heater_off"))

turn_heater_pump_on(h) == tc_turn_heater_pump_on(Call(h, "turn_heater_pump_on"))

\* turn_heater_pump_off that delegates to the controller's pump-on
turn_heater_pump_off_as_on(h) == tc_turn_heater_pump_on(Call(h, "turn_heater_pump_off"))

turn_heater_pump_off(h) == tc_turn_heater_pump_off(Call(h, "turn_heater_pump_off"))

turn_cooler_on(h) == tc_turn_cooler_on(tc_turn_heater_off(Call(h, "turn_cooler_on")))

\* turn_cooler_off that never reaches the controller
turn_cooler_off_lost(h) == Call(h, "turn_cooler_off")

turn_cooler_off(h) == tc_turn_cooler_off(Call(h, "turn_cooler_off"))

turn_stirrer_on(h) == st_turn_stirrer_on(Call(h, "turn_stirrer_on"))

\* turn_stirrer_off that starts the stirrer
turn_stirrer_off_starts(h) == st_turn_stirrer_on(Call(h, "turn_stirrer_off"))

turn_stirrer_off(h) == st_turn_stirrer_off(Call(h, "turn_stirrer_off"))

\* a shutdown that forgets the cooler
turn_off_everything_partial(h) ==
    turn_stirrer_off(turn_heater_pump_off(turn_heater_off(h)))

turn_off_everything(h) ==
    turn_stirrer_off(turn_cooler_off(turn_heater_pump_off(turn_heater_off(h))))

get_temp(h) == tc_get_temp(Call(h, "get_temp"))

\* an uptime that forgets the speedup
uptime_seconds_unscaled(c) == c.now - c.start_time

\* uptime_seconds: elapsed monotonic time, multiplied by the speedup when one is set
uptime_seconds(c) ==
    IF c.hasSpeedup THEN (c.now - c.start_time) * c.hardwareSpeedup
    ELSE c.now - c.start_time

\* the factor of simulated to real time: hardwareSpeedup, 1 when there is none
Speedup(c) == IF c.hasSpeedup THEN c.hardwareSpeedup ELSE 1

\* durations are fractions <<numerator, denominator>> of a second
RECURSIVE GCD(_, _)
GCD(a, b) == IF b = 0 THEN a ELSE GCD(b, a % b)

Abs(x) == IF x < 0 THEN -x ELSE x

\* a fraction in lowest terms with a positive denominator
Frac(n, d) ==
    LET g == GCD(Abs(n), Abs(d))
        s == IF d < 0 THEN -1 ELSE 1
    IN  IF g = 0 THEN <<0, 1>> ELSE <<s * (n \div g), s * (d \div g)>>

Reduced(q) == Frac(q[1], q[2])

\* a sleep that returns at once
sleep_skipped(c, seconds) == <<0, 1>>

\* sleep: the seconds of real time asked of time.sleep, a fraction; the wait is
\* divided by hardwareSpeedup when one is configured
sleep(c, seconds) ==
    IF c.hasSpeedup THEN Frac(seconds[1], seconds[2] * c.hardwareSpeedup)
    ELSE seconds

\* pump channels of the reagent dispenser
PumpIds == {"X", "Y", "Z"}

\* "no target duration" (duration = None) of a dispense call
NoDuration == 0

\* ReagentDispenser.dispense: records the call; the duration it reports is the
\* target duration when one is given, else the volume at the channel's maximum speed
rd_dispense(h, pump_id, volume, duration) ==
    [h EXCEPT !.dispenses = Append(@, [pump |-> pump_id, volume |-> volume,
                                       duration |-> duration])]

rd_dispense_time(h, volume, duration) ==
    IF duration = NoDuration THEN <<volume, h.limits.maxSpeed>> ELSE <<duration, 1>>

\* a facade that loses the dispenser's answer
pump_dispense_time_none(h, volume, duration) == <<0, 1>>

\* the value pump_dispense returns: the duration of the dispensation
pump_dispense_time(h, volume, duration) == rd_dispense_time(h, volume, duration)

\* a facade that does not pass the target duration on
pump_dispense_untimed(h, pump_id, volume, duration) ==
    rd_dispense(Call(h, "pump_dispense"), pump_id, volume, NoDuration)

pump_dispense(h, pump_id, volume, duration) ==
    rd_dispense(Call(h, "pump_dispense"), pump_id, volume, duration)

\* ReagentDispenser.get_pump_limits: the limits of a configured channel; any other
\* id is an error (ok = FALSE)
rd_get_pump_limits(h, pump_id) ==
    IF pump_id \in PumpIds
    THEN [ok |-> TRUE, minSpeed |-> h.limits.minSpeed, maxSpeed |-> h.limits.maxSpeed]
    ELSE [ok |-> FALSE, minSpeed |-> 0, maxSpeed |-> 0]

\* a facade that asks for the limits of channel X whatever the id
get_pump_limits_any(h, pump_id) == rd_get_pump_limits(h, "X")

\* a facade that hands the two limits back in each other's place
get_pump_limits_swapped(h, pump_id) ==
    LET lim == rd_get_pump_limits(h, pump_id)
    IN  [lim EXCEPT !.minSpeed = lim.maxSpeed, !.maxSpeed = lim.minSpeed]

get_pump_limits(h, pump_id) == rd_get_pump_limits(h, pump_id)

\* the logs of one operation start empty
Fresh(h) == [h EXCEPT !.sent = <<>>, !.calls = <<>>, !.dispenses = <<>>]

----------------------------------------------------------------------------
(* The facade object: construction and load_hardware.  A device set is     *)
(* known by the number of the load that built it (0: the empty set of the  *)
(* constructor); a role binding holds the number of the load that set it   *)
(* (0: the attribute does not exist yet).                                  *)

Roles == {"reactor-temperature-controller", "reactor-stirrer",
          "reactor-reagent-dispenser"}

Descriptor(id, dependencies) == [id |-> id, dependencies |-> dependencies]

Range(seq) == {seq[i] : i \in DOMAIN seq}

Ids(device_definitions) == {d.id : d \in Range(device_definitions)}

Remove(seq, i) == SubSeq(seq, 1, i - 1) \o SubSeq(seq, i + 1, Len(seq))

\* the construction order: again and again the first descriptor of the list whose
\* dependencies are all constructed; when none is ready and some are left, a
\* dependency is missing or the dependencies form a cycle
RECURSIVE build_order(_, _)
build_order(pending, built) ==
    IF pending = <<>> THEN [ok |-> TRUE, order |-> built]
    ELSE LET ready == {i \in DOMAIN pending :
                          pending[i].dependencies \subseteq Range(built)}
         IN  IF ready = {} THEN [ok |-> FALSE, order |-> <<>>]
             ELSE LET i == CHOOSE k \in ready : \A j \in ready : k <= j
                  IN  build_order(Remove(pending, i), Append(built, pending[i].id))

\* a builder that constructs the devices in the order of the list
setup_devices_in_list_order(device_definitions) ==
    [ok |-> TRUE,
     order |-> [i \in DOMAIN device_definitions |-> device_definitions[i].id]]

\* a builder that leaves out the devices it cannot construct
RECURSIVE build_ready(_, _)
build_ready(pending, built) ==
    LET ready == {i \in DOMAIN pending :
                     pending[i].dependencies \subseteq Range(built)}
    IN  IF ready = {} THEN [ok |-> TRUE, order |-> built]
        ELSE LET i == CHOOSE k \in ready : \A j \in ready : k <= j
             IN  build_ready(Remove(pending, i), Append(built, pending[i].id))

setup_devices_skipping(device_definitions) == build_ready(device_definitions, <<>>)

\* devicelist.setup_devices: the devices in construction order, or ConfigError
setup_devices(device_definitions) == build_order(device_definitions, <<>>)

NoError == [type |-> "None", key |-> ""]

ConfigError == [type |-> "ConfigError", key |-> ""]

KeyError(key) == [type |-> "KeyError", key |-> key]

NoDevices == [load |-> 0, ids |-> {}]

\* what the facade exposes: its state, its devices and its three role bindings
Exposed(f) ==
    [state |-> f.state, devices |-> f.devices, temp_controller |-> f.temp_controller,
     stirrer |-> f.stirrer, reagent_dispenser |-> f.reagent_dispenser]

\* no MicroLabHardware object yet; logger is the class attribute _logger being set
NoFacade(logger) ==
    [alive |-> FALSE, state |-> "NONE", error |-> NoError, devices |-> NoDevices,
     temp_controller |-> 0, stirrer |-> 0, reagent_dispenser |-> 0,
     logger |-> logger, result |-> "none", cause |-> NoError, built |-> <<>>,
     device_definitions |-> <<>>, loads |-> 0,
     before |-> [state |-> "NONE", devices |-> NoDevices, temp_controller |-> 0,
                 stirrer |-> 0, reagent_dispenser |-> 0],
     sleeping |-> [on |-> FALSE, seconds |-> <<0, 1>>, until |-> 0, from |-> 0,
                   steady |-> TRUE],
     slept |-> [asked |-> <<0, 1>>, gained |-> 0, steady |-> TRUE]]

\* a failed load that reports the failure and records nothing
load_failed_silent(f, e) == [f EXCEPT !.result = "False", !.cause = e]

\* the except branch of load_hardware: self._logger.exception(...) comes first and
\* raises AttributeError when no logger is set; then state and error are stored
load_failed(f, e) ==
    IF ~f.logger THEN [f EXCEPT !.result = "raised", !.cause = e]
    ELSE [f EXCEPT !.state = "FAILED_TO_START", !.error = e, !.result = "False",
                   !.cause = e]

\* load_hardware: devices is assigned as soon as setup_devices returns, then the
\* three roles are looked up one after the other; the first failure ends the try
load_hardware(f, device_definitions) ==
    LET n == f.loads + 1
        f0 == [f EXCEPT !.loads = n, !.device_definitions = device_definitions,
                        !.before = Exposed(f), !.built = <<>>, !.cause = NoError]
        r == setup_devices(device_definitions)
        f1 == [f0 EXCEPT !.devices = [load |-> n, ids |-> Range(r.order)],
                         !.built = r.order]
        f2 == [f1 EXCEPT !.temp_controller = n]
        f3 == [f2 EXCEPT !.stirrer = n]
    IN  IF ~r.ok THEN load_failed(f0, ConfigError)
        ELSE IF "reactor-temperature-controller" \notin f1.devices.ids
        THEN load_failed(f1, KeyError("reactor-temperature-controller"))
        ELSE IF "reactor-stirrer" \notin f2.devices.ids
        THEN load_failed(f2, KeyError("reactor-stirrer"))
        ELSE IF "reactor-reagent-dispenser" \notin f3.devices.ids
        THEN load_failed(f3, KeyError("reactor-reagent-dispenser"))
        ELSE [f3 EXCEPT !.reagent_dispenser = n, !.state = "INITIALIZED",
                        !.result = "True"]

\* MicroLabHardware.__init__: the fields are set, the hardware is loaded, and then
\* the logger is set if it was not; when load_hardware raises no object is made
MicroLabHardware_init(logger, device_definitions) ==
    LET f == load_hardware([NoFacade(logger) EXCEPT !.state = "STARTING"],
                           device_definitions)
    IN  IF f.result = "raised" THEN f
        ELSE [f EXCEPT !.alive = TRUE, !.logger = TRUE]

----------------------------------------------------------------------------
(* Routes of the API *)

\* File names are sequences of characters.  The characters secure_filename keeps
\* as they are (of A-Z, a-z, 0-9, "_", "." and "-", those the names here are made of)
SafeChars == {"a", "b", "c", "e", "f", "h", "m", "r", "y", "_", ".", "-"}

\* unicodedata.normalize("NFKD", c) encoded to ASCII with errors ignored: an
\* accented letter leaves its base letter, any other non-ASCII character nothing
ascii_ignore(c) ==
    IF c = "é" THEN <<"e">> ELSE IF c = "ß" THEN <<>> ELSE <<c>>

RECURSIVE nfkd_ascii(_)
nfkd_ascii(filename) ==
    IF filename = <<>> THEN <<>>
    ELSE ascii_ignore(Head(filename)) \o nfkd_ascii(Tail(filename))

\* filename.replace(os.sep, " ")
replace_sep(filename) ==
    [i \in DOMAIN filename |-> IF filename[i] = "/" THEN " " ELSE filename[i]]

\* "_".join(filename.split()): the words between runs of white space, joined by "_";
\* word is the word being read and joined what has been joined so far
RECURSIVE join_split(_, _, _)
join_split(filename, word, joined) ==
    LET glue(w) == IF w = <<>> THEN joined
                   ELSE IF joined = <<>> THEN w ELSE joined \o <<"_">> \o w
    IN  IF filename = <<>> THEN glue(word)
        ELSE IF Head(filename) = " "
        THEN join_split(Tail(filename), <<>>, glue(word))
        ELSE join_split(Tail(filename), Append(word, Head(filename)), joined)

\* re.sub("[^A-Za-z0-9_.-]", "", filename)
ascii_strip(filename) == SelectSeq(filename, LAMBDA c : c \in SafeChars)

\* str.strip("._"), first on the left and then on the right
RECURSIVE lstrip(_)
lstrip(filename) ==
    IF filename # <<>> /\ Head(filename) \in {".", "_"} THEN lstrip(Tail(filename))
    ELSE filename

RECURSIVE rstrip(_)
rstrip(filename) ==
    IF filename # <<>> /\ filename[Len(filename)] \in {".", "_"}
    THEN rstrip(SubSeq(filename, 1, Len(filename) - 1))
    ELSE filename

\* werkzeug.utils.secure_filename
secure_filename(filename) ==
    rstrip(lstrip(ascii_strip(join_split(replace_sep(nfkd_ascii(filename)),
                                         <<>>, <<>>))))

\* the recipes the listing knows, each with its title and the fileName it carries;
\* the files and the directories in the recipes directory; the last request, its
\* answer, and the files it removed.  pc is "reload_hardware" between the two calls
\* of a route that reloads.  controllerHardware and labHardware are the two names
\* of the configuration the routes assign
NoApi == [known |-> {}, files |-> {}, dirs |-> {}, route |-> "none", name |-> "",
          response |-> "none", status |-> 0, removed |-> {}, pc |-> "idle",
          controllerHardware |-> "", labHardware |-> ""]

\* recipes.core.get_recipe_by_name: the recipe of that title, or None
get_recipe_by_name(a, name) ==
    IF \E r \in a.known : r.title = name
    THEN [found |-> TRUE, fileName |-> (CHOOSE r \in a.known : r.title = name).fileName]
    ELSE [found |-> FALSE, fileName |-> <<>>]

\* join(config.recipesDirectory, filename) names a directory: one of the directories
\* in it, or the recipes directory itself when filename is empty
IsDirectory(a, filename) == filename = <<>> \/ filename \in a.dirs

\* /deleteRecipe/<name>: recipe.fileName is read whether or not a recipe was found
\* (AttributeError on None, which nothing catches); os.remove is given
\* secure_filename(recipe.fileName) in the recipes directory, and raises
\* FileNotFoundError when no such file is there and IsADirectoryError, which nothing
\* catches either, when the path is a directory
_delete_recipe(a, name) ==
    LET recipe == get_recipe_by_name(a, name)
        filename == secure_filename(recipe.fileName)
        a0 == [a EXCEPT !.route = "deleteRecipe", !.name = name, !.removed = {}]
    IN  IF ~recipe.found
        THEN [a0 EXCEPT !.response = "AttributeError", !.status = 500]
        ELSE IF filename \in a.files
        THEN [a0 EXCEPT !.files = @ \ {filename},
                        !.removed = {filename},
                        !.response = "ok", !.status = 200]
        ELSE IF IsDirectory(a, filename)
        THEN [a0 EXCEPT !.response = "IsADirectoryError", !.status = 500]
        ELSE [a0 EXCEPT !.response = "error", !.status = 404]

\* /uploadRecipe: a file that is not of type application/json, is not JSON or is not
\* a valid recipe is refused; any other is saved in the recipes directory under
\* secure_filename(f.filename), over a file of that name if there is one.  Saving to
\* a path that is a directory raises IsADirectoryError, which nothing catches
_upload_recipe(a, f) ==
    LET filename == secure_filename(f.filename)
        a0 == [a EXCEPT !.route = "uploadRecipe", !.name = "", !.removed = {}]
    IN  IF f.mimetype # "application/json" \/ f.content # "recipe"
        THEN [a0 EXCEPT !.response = "error", !.status = 400]
        ELSE IF IsDirectory(a, filename)
        THEN [a0 EXCEPT !.response = "IsADirectoryError", !.status = 500]
        ELSE [a0 EXCEPT !.files = @ \cup {filename},
                        !.response = "ok", !.status = 200]

\* the answer of a route that reloads, once reload_hardware has returned
reload_answer(a, f) ==
    IF f.result = "True"
    THEN [a EXCEPT !.pc = "idle", !.response = "ok", !.status = 200]
    ELSE [a EXCEPT !.pc = "idle", !.response = "error", !.status = 400]

\* a route that reloads has been entered and has called reload_config()
reload_begun(a, route, name) ==
    [a EXCEPT !.pc = "reload_hardware", !.route = route, !.name = name,
              !.removed = {}, !.response = "none", !.status = 0]

\* /reloadHardware, up to reload_config() and from reload_hardware() on
_reload_hardware_config(a) == reload_begun(a, "reloadHardware", "")

_reload_hardware(a, f) == reload_answer(a, f)

\* /controllerHardware/<name>: config.controllerHardware = name, then as a reload
_select_controller_hardware_config(a, name) ==
    reload_begun([a EXCEPT !.controllerHardware = name], "controllerHardware", name)

_select_controller_hardware(a, f) == reload_answer(a, f)

\* /labHardware/<name>: config.labHardware = name, then as a reload
_select_lab_hardware_config(a, name) ==
    reload_begun([a EXCEPT !.labHardware = name], "labHardware", name)

_select_lab_hardware(a, f) == reload_answer(a, f)

----------------------------------------------------------------------------
(* Tasks: what one pull of each task does.  A step takes the devices with  *)
(* empty logs, the clock, the task's parameters and its progress, and      *)
(* gives the devices and the progress after the pull.                      *)

\* the polling interval a task asks the scheduler to wait between pulls
PollInterval == 1

NoTask == [kind |-> "none", temp |-> 0, tolerance |-> 0, time |-> 0,
           pump |-> "", volume |-> 0]

NewPID == [integral |-> 0, previousError |-> 0, previousSampleTime |-> 0,
           hasPrevious |-> FALSE, output |-> 0]

\* progress of a task that has not been pulled yet
NewRun == [pc |-> "Created", start |-> 0, yielded |-> "none", wait |-> <<0, 1>>,
           first |-> FALSE, uptime |-> 0, read |-> FALSE, temp |-> 0, terr |-> 0,
           pumpOn |-> 0, pumpOff |-> 0, pid |-> NewPID,
           stage |-> "start", remaining |-> 0, rem |-> <<0, 0>>, dispensed |-> 0,
           delivered |-> 0, ndispense |-> 0, late |-> 0, waits |-> <<>>,
           exec |-> 0, execs |-> 0, bursts |-> 0, slept |-> TRUE,
           dones |-> 0, allBelow |-> TRUE, allAbove |-> TRUE, cooling0 |-> FALSE,
           before |-> <<0, 0>>]

\* the task yields Wait(PollInterval)
YieldWait(r) == [r EXCEPT !.pc = "Active", !.yielded = "Wait", !.wait = <<PollInterval, 1>>]

\* the task yields Done (None)
YieldDone(r) == [r EXCEPT !.pc = "Completed", !.yielded = "Done"]

\* the temperature sample of a pull is remembered with the pull: the double read is
\* <<temp, terr>>
Sampled(r, h) == [r EXCEPT !.read = TRUE, !.temp = h.temperature, !.terr = h.err]

heat(h, t, r) ==
    LET h1 == get_temp(h)
        r1 == Sampled(r, h1)
    IN  IF temp_le(temp_literal(t.temp), Temp(h1))
        THEN [hw |-> turn_heater_off(h1), run |-> YieldDone(r1)]
        ELSE [hw |-> turn_heater_on(h1), run |-> YieldWait(r1)]

cool(h, t, r) ==
    LET h1 == get_temp(h)
        r1 == Sampled(r, h1)
    IN  IF temp_le(Temp(h1), temp_literal(t.temp))
        THEN [hw |-> turn_cooler_off(h1), run |-> YieldDone(r1)]
        ELSE [hw |-> turn_cooler_on(h1), run |-> YieldWait(r1)]

\* the first pull of a timed task records the uptime it starts at
Started(r, u) == IF r.pc = "Created" THEN [r EXCEPT !.start = u] ELSE r

maintain_heat(h, u, t, r) ==
    LET r0 == Started(r, u)
    IN  IF u - r0.start >= t.time
        THEN [hw |-> turn_cooler_off(turn_heater_off(h)), run |-> YieldDone(r0)]
        ELSE LET h1 == get_temp(h)
                 r1 == Sampled(r0, h1)
             IN  IF temp_lt(Temp(h1), temp_add(temp_literal(t.temp), temp_literal(-t.tolerance)))
                 THEN [hw |-> turn_heater_on(h1), run |-> YieldWait(r1)]
                 ELSE [hw |-> turn_heater_off(h1), run |-> YieldWait(r1)]

maintain_cool(h, u, t, r) ==
    LET r0 == Started(r, u)
    IN  IF u - r0.start >= t.time
        THEN [hw |-> turn_cooler_off(turn_heater_off(h)), run |-> YieldDone(r0)]
        ELSE LET h1 == get_temp(h)
                 r1 == Sampled(r0, h1)
             IN  IF temp_lt(temp_add(temp_literal(t.temp), temp_literal(t.tolerance)), Temp(h1))
                 THEN [hw |-> turn_cooler_on(h1), run |-> YieldWait(r1)]
                 ELSE [hw |-> turn_cooler_off(h1), run |-> YieldWait(r1)]

stir(h, u, t, r) ==
    LET r0 == Started(r, u)
        h0 == IF r.pc = "Created" THEN turn_stirrer_on(h) ELSE h
    IN  IF u - r0.start < t.time
        THEN [hw |-> h0, run |-> YieldWait(r0)]
        ELSE [hw |-> turn_stirrer_off(h0), run |-> YieldDone(r0)]

\* a finished task that starts over when pulled again
exhausted_restarts(h, r) == [hw |-> turn_off_everything(h), run |-> YieldWait(r)]

\* a pull of a task that has already finished: StopIteration, nothing is touched
exhausted(h, r) ==
    [hw |-> h, run |-> [r EXCEPT !.pc = "Exhausted", !.yielded = "StopIteration"]]

----------------------------------------------------------------------------
(* maintain_pid: a time-proportioning PID controller.  The gains are kept  *)
(* doubled so that I = 0.5 is a whole number; only the sign of the output  *)
(* decides which actuator is driven.                                       *)

\* pidConfig P = 1, doubled
PID_P2 == 2
\* pidConfig I = 0.5, doubled
PID_I2 == 1
\* pidConfig D = 5, doubled
PID_D2 == 10

Sign(x) == IF x > 0 THEN 1 ELSE IF x < 0 THEN -1 ELSE 0

\* one PID update at uptime u with the sampled temperature: the new PIDState.
\* A sample taken with no time elapsed since the previous one keeps the previous
\* output; the first sample has no derivative and no integral yet.
pid_update(p, u, target, current) ==
    LET error == target - current
        dt == u - p.previousSampleTime
    IN  IF ~p.hasPrevious
        THEN [integral |-> 0, previousError |-> error, previousSampleTime |-> u,
              hasPrevious |-> TRUE, output |-> Sign(PID_P2 * error)]
        ELSE IF dt <= 0 THEN p
        ELSE LET integral == p.integral + error * dt
             IN  [integral |-> integral, previousError |-> error,
                  previousSampleTime |-> u, hasPrevious |-> TRUE,
                  output |-> Sign(PID_P2 * error * dt + PID_I2 * integral * dt
                                  + PID_D2 * (error - p.previousError))]

\* the actuators for one phase of the control window: a positive output drives the
\* heater (cooler forced off), a negative one the cooler (heater forced off); the
\* actuator is on in the on-phase of the window and off in the rest of it
pid_drive(h, output, onPhase) ==
    IF output > 0
    THEN IF onPhase THEN turn_heater_on(turn_cooler_off(h))
         ELSE turn_heater_off(turn_cooler_off(h))
    ELSE IF output < 0
    THEN IF onPhase THEN turn_cooler_on(turn_heater_off(h))
         ELSE turn_cooler_off(turn_heater_off(h))
    ELSE turn_cooler_off(turn_heater_off(h))

maintain_pid(h, u, t, r, onPhase) ==
    LET r0 == Started(r, u)
        h0 == IF r.pc = "Created" THEN turn_heater_pump_on(h) ELSE h
    IN  IF u - r0.start >= t.time
        THEN [hw |-> turn_heater_pump_off(turn_cooler_off(turn_heater_off(h0))),
              run |-> YieldDone(r0)]
        ELSE LET h1 == get_temp(h0)
                 p == pid_update(r0.pid, u, t.temp, h1.temperature)
                 r1 == [Sampled(r0, h1) EXCEPT !.pid = p]
             IN  [hw |-> pid_drive(h1, p.output, onPhase), run |-> YieldWait(r1)]

----------------------------------------------------------------------------
(* pump: rate-limited dispensing.  Volumes are in tenths of a millilitre,  *)
(* speeds in tenths of a millilitre per second; durations are fractions    *)
(* <<numerator, denominator>> of a second.                                 *)

YieldFor(r, w) == [r EXCEPT !.pc = "Active", !.yielded = "Wait", !.wait = w]

\* The task keeps the volume still to dispense in a binary double, so a tenth of
\* a millilitre is not held exactly.  A double d, 0 <= d < 8 mL, is the pair
\* <<hi, lo>> with d = (hi * Limb + lo) / 2^56: every double met here is a whole
\* multiple of 2^-56.
Limb == 2^28

\* the spacing of doubles around d, in units of 2^-56: 53 significant bits
fl_ulp(hi) ==
    IF hi < 2^25 THEN 1 ELSE IF hi < 2^26 THEN 2 ELSE IF hi < 2^27 THEN 4
    ELSE IF hi < 2^28 THEN 8 ELSE IF hi < 2^29 THEN 16 ELSE IF hi < 2^30 THEN 32
    ELSE 64

\* round (hi * Limb + lo + tenths/10) / 2^56 to the nearest double, ties to even
fl_round(hi, lo, tenths) ==
    LET u == fl_ulp(hi)
        r == lo % u
        low == lo - r
        up == \/ 2 * (10 * r + tenths) > 10 * u
              \/ 2 * (10 * r + tenths) = 10 * u /\ (low \div u) % 2 = 1
    IN  IF ~up THEN <<hi, low>>
        ELSE IF low + u >= Limb THEN <<hi + 1, low + u - Limb>>
        ELSE <<hi, low + u>>

\* the double nearest to k tenths of a millilitre, 0 <= k < 80: k * 2^56 / 10 by
\* long division, Limb = 10 * (Limb \div 10) + Limb % 10
to_float(k) ==
    LET q == Limb \div 10
        m == Limb % 10
        r0 == k % 10
        mid == r0 * q + (m * r0) \div 10
        r1 == (m * r0) % 10
        low == r1 * q + (m * r1) \div 10
        r2 == (m * r1) % 10
    IN  fl_round((k \div 10) * Limb + mid, low, r2)

\* a - b for doubles a >= b
fl_sub(a, b) ==
    IF a[2] >= b[2] THEN fl_round(a[1] - b[1], a[2] - b[2], 0)
    ELSE fl_round(a[1] - b[1] - 1, a[2] + Limb - b[2], 0)

fl_ge(a, b) == a[1] > b[1] \/ (a[1] = b[1] /\ a[2] >= b[2])

fl_positive(a) == a # <<0, 0>>

Dispensed(r, v) == [r EXCEPT !.dispensed = @ + v]

\* one pull of the burst loop: u0 and u1 are the uptime before and after the burst
\* call.  r.rem is the volume left as the task holds it, a double; r.remaining is
\* the same volume in exact tenths, from which the waits and the volumes of the
\* calls are written (they differ from the doubles by rounding only).
pump_bursts(h, u0, u1, t, r, lim) ==
    LET burstVolume == lim.minSpeed
    IN  IF fl_ge(r.rem, to_float(burstVolume))
        THEN [hw |-> pump_dispense(h, t.pump, burstVolume, 1),
              run |-> YieldFor([Dispensed(r, burstVolume) EXCEPT
                                   !.remaining = @ - burstVolume,
                                   !.rem = fl_sub(@, to_float(burstVolume)),
                                   !.stage = "burst"],
                               Frac(lim.minSpeed * t.time - t.volume
                                        - (u1 - u0) * t.volume, t.volume))]
        ELSE IF fl_positive(r.rem)
        THEN [hw |-> pump_dispense(h, t.pump, r.remaining, NoDuration),
              run |-> YieldFor([Dispensed(r, r.remaining) EXCEPT
                                   !.remaining = 0, !.rem = <<0, 0>>,
                                   !.stage = "finish"],
                               Frac(r.remaining * t.time, t.volume))]
        ELSE [hw |-> h, run |-> YieldDone(r)]

pump(h, u0, u1, t, r) ==
    LET lim == get_pump_limits(h, t.pump)
    IN  IF r.stage = "finish" THEN [hw |-> h, run |-> YieldDone(r)]
        ELSE IF r.stage = "burst" THEN pump_bursts(h, u0, u1, t, r, lim)
        ELSE IF ~lim.ok
        THEN [hw |-> h, run |-> [r EXCEPT !.pc = "Exhausted", !.yielded = "ValueError"]]
        ELSE IF t.time = 0 \/ t.volume > lim.maxSpeed * t.time
        THEN [hw |-> pump_dispense(h, t.pump, t.volume, NoDuration),
              run |-> YieldFor([Dispensed(r, t.volume) EXCEPT !.stage = "finish"],
                               Reduced(pump_dispense_time(h, t.volume, NoDuration)))]
        ELSE IF t.volume >= lim.minSpeed * t.time
        THEN [hw |-> pump_dispense(h, t.pump, t.volume, t.time),
              run |-> YieldFor([Dispensed(r, t.volume) EXCEPT !.stage = "finish"],
                               Reduced(pump_dispense_time(h, t.volume, t.time)))]
        ELSE pump_bursts(h, u0, u1, t,
                         [r EXCEPT !.remaining = t.volume, !.rem = to_float(t.volume)],
                         lim)

\* whether this pull of a pump task makes a burst call, which may block
IsBurstPull(t, r, h) ==
    /\ t.kind = "pump"
    /\ r.pc \in {"Created", "Active"}
    /\ \/ r.stage = "burst" /\ fl_ge(r.rem, to_float(h.limits.minSpeed))
       \/ /\ r.stage = "start" /\ t.pump \in PumpIds /\ t.time > 0
          /\ t.volume < h.limits.minSpeed * t.time
          /\ t.volume >= h.limits.minSpeed

----------------------------------------------------------------------------
(* The scheduler's view: tasks are made, pulled, and dropped; time passes. *)

\* value of time.monotonic() when the facade is constructed
Boot == 1

\* largest configured hardwareSpeedup
MaxSpeedup == 2

\* configured starting temperatures: whole degrees, the default among them
InitTemps == {DefaultTemp, 290, 310, 330}

Targets == {300}

Tolerances == {0, 20}

Times == {0, 2}

Volumes == {20, 50, 60}

PumpTimes == {0, 1, 4}

\* the volume of the pump tasks that stand among the other tasks; the pump tasks of
\* every volume are those of SpecPump
TaskVolumes == {20}

PumpLimits == {[minSpeed |-> 20, maxSpeed |-> 50]}

\* device lists: that of the tests, orders with forward references, a dependency
\* that no descriptor defines, a cycle, and lists that lack one role
Thermometer == "reactor-thermometer"

GoodDevices ==
    <<Descriptor(Thermometer, {}),
      Descriptor("reactor-temperature-controller", {Thermometer}),
      Descriptor("reactor-reagent-dispenser", {}),
      Descriptor("reactor-stirrer", {})>>

DeviceLists ==
    {GoodDevices,
     <<Descriptor("reactor-temperature-controller", {Thermometer}),
       Descriptor(Thermometer, {}),
       Descriptor("reactor-stirrer", {}),
       Descriptor("reactor-reagent-dispenser", {})>>,
     <<Descriptor("reactor-reagent-dispenser", {"reactor-stirrer"}),
       Descriptor("reactor-stirrer", {"reactor-temperature-controller"}),
       Descriptor("reactor-temperature-controller", {Thermometer}),
       Descriptor(Thermometer, {})>>,
     <<Descriptor("reactor-temperature-controller", {Thermometer}),
       Descriptor("reactor-stirrer", {}),
       Descriptor("reactor-reagent-dispenser", {})>>,
     <<Descriptor(Thermometer, {"reactor-temperature-controller"}),
       Descriptor("reactor-temperature-controller", {Thermometer}),
       Descriptor("reactor-stirrer", {}),
       Descriptor("reactor-reagent-dispenser", {})>>,
     <<Descriptor(Thermometer, {}),
       Descriptor("reactor-temperature-controller", {Thermometer}),
       Descriptor("reactor-reagent-dispenser", {})>>,
     <<Descriptor(Thermometer, {}),
       Descriptor("reactor-temperature-controller", {Thermometer}),
       Descriptor("reactor-stirrer", {})>>,
     <<Descriptor("reactor-stirrer", {}),
       Descriptor("reactor-reagent-dispenser", {})>>}

Task(kind, temp, tolerance, time, pump_id, volume) ==
    [kind |-> kind, temp |-> temp, tolerance |-> tolerance, time |-> time,
     pump |-> pump_id, volume |-> volume]

Tasks ==
    {Task(k, T, 0, 0, "", 0) : k \in {"heat", "cool"}, T \in Targets}
    \cup {Task(k, T, tol, tm, "", 0) :
            k \in {"maintain_heat", "maintain_cool", "maintain_pid"},
            T \in Targets, tol \in Tolerances, tm \in Times}
    \cup {Task("stir", 0, 0, tm, "", 0) : tm \in Times}
    \cup {Task("pump", 0, 0, tm, "X", v) : tm \in PumpTimes, v \in TaskVolumes}
    \cup {Task("pump", 0, 0, 0, p, v) : p \in {"Y", "Z", "Q"}, v \in {20}}

\* one pull of the task: the devices and the progress after it
step(h, u0, u1, t, r, onPhase) ==
    IF r.pc \in {"Completed", "Exhausted"} THEN exhausted(h, r)
    ELSE IF t.kind = "heat" THEN heat(h, t, r)
    ELSE IF t.kind = "cool" THEN cool(h, t, r)
    ELSE IF t.kind = "maintain_heat" THEN maintain_heat(h, u0, t, r)
    ELSE IF t.kind = "maintain_cool" THEN maintain_cool(h, u0, t, r)
    ELSE IF t.kind = "maintain_pid" THEN maintain_pid(h, u0, t, r, onPhase)
    ELSE IF t.kind = "stir" THEN stir(h, u0, t, r)
    ELSE pump(h, u0, u1, t, r)

Count(seq, x) == Cardinality({i \in DOMAIN seq : seq[i] = x})

\* the volume the dispenser was told to move by the calls of a log
RECURSIVE SumVolumes(_)
SumVolumes(log) ==
    IF log = <<>> THEN 0 ELSE Head(log).volume + SumVolumes(Tail(log))

Init ==
    /\ \E T \in InitTemps, lim \in PumpLimits :
          hw = [heating |-> FALSE, cooling |-> FALSE, temperature |-> T, err |-> temp_literal(T)[2],
                heaterPump |-> FALSE, stirring |-> FALSE, reads |-> 0,
                limits |-> lim, sent |-> <<>>, calls |-> <<>>, dispenses |-> <<>>]
    /\ \E s \in 0..MaxSpeedup :
          clock = [now |-> Boot, start_time |-> Boot,
                   hasSpeedup |-> s > 0, hardwareSpeedup |-> s]
    /\ task = NoTask
    /\ run = NewRun
    /\ facade = MicroLabHardware_init(TRUE, GoodDevices)
    /\ api = NoApi

\* a facade operation called directly, outside any task
FacadeOp(op) ==
    /\ \/ task.kind = "none"
       \/ task.kind = "dropped" /\ op = "turn_off_everything"
    /\ hw' = CASE op = "turn_heater_on" -> turn_heater_on(Fresh(hw))
               [] op = "turn_heater_off" -> turn_heater_off(Fresh(hw))
               [] op = "turn_heater_pump_on" -> turn_heater_pump_on(Fresh(hw))
               [] op = "turn_heater_pump_off" -> turn_heater_pump_off(Fresh(hw))
               [] op = "turn_cooler_on" -> turn_cooler_on(Fresh(hw))
               [] op = "turn_cooler_off" -> turn_cooler_off(Fresh(hw))
               [] op = "turn_stirrer_on" -> turn_stirrer_on(Fresh(hw))
               [] op = "turn_stirrer_off" -> turn_stirrer_off(Fresh(hw))
               [] op = "turn_off_everything" -> turn_off_everything(Fresh(hw))
    /\ UNCHANGED <<clock, task, run, facade, api>>

FacadeOps == {"turn_heater_on", "turn_heater_off", "turn_heater_pump_on",
              "turn_heater_pump_off", "turn_cooler_on", "turn_cooler_off",
              "turn_stirrer_on", "turn_stirrer_off", "turn_off_everything"}

\* the scheduler is handed a new task
MakeTask(t) ==
    /\ task.kind = "none"
    /\ task' = t
    /\ run' = NewRun
    /\ hw' = Fresh(hw)
    /\ UNCHANGED <<clock, facade, api>>

\* the scheduler pulls the task once; a burst call of a pump task may block for
\* `blocked` seconds of monotonic time
Pull(onPhase, blocked) ==
    /\ task.kind \notin {"none", "dropped"}
    /\ blocked > 0 => IsBurstPull(task, run, hw)
    /\ clock.now + blocked <= Boot + MaxNow
    /\ LET after == [clock EXCEPT !.now = @ + blocked]
           u0 == uptime_seconds(clock)
           u1 == uptime_seconds(after)
           res == step(Fresh(hw), u0, u1, task, run, onPhase)
       IN  /\ res.hw.reads <= MaxReads
           /\ hw' = res.hw
           /\ run' = [res.run EXCEPT
                         !.first = (run.pc = "Created"),
                         !.cooling0 = (run.pc = "Created" /\ hw.cooling),
                         !.uptime = u0,
                         !.read = (res.hw.reads # hw.reads),
                         !.pumpOn = @ + Count(res.hw.calls, "turn_heater_pump_on"),
                         !.pumpOff = @ + Count(res.hw.calls, "turn_heater_pump_off"),
                         !.dones = @ + (IF res.run.yielded = "Done" THEN 1 ELSE 0),
                         !.delivered = @ + SumVolumes(res.hw.dispenses),
                         !.ndispense = @ + Len(res.hw.dispenses),
                         !.exec = u1 - u0,
                         !.slept = (res.run.yielded # "Wait"),
                         !.late = @ + (IF /\ res.hw.dispenses # <<>>
                                          /\ run.delivered >= task.volume
                                       THEN 1 ELSE 0),
                         !.waits = IF task.kind = "pump" /\ res.run.yielded = "Wait"
                                   THEN Append(@, res.run.wait) ELSE @,
                         !.execs = @ + (u1 - u0),
                         !.bursts = @ + (IF /\ task.kind = "pump"
                                            /\ res.run.yielded = "Wait"
                                            /\ res.run.stage = "burst"
                                         THEN 1 ELSE 0),
                         !.allBelow = @ /\ (res.hw.reads # hw.reads
                                               => temp_lt(Temp(res.hw),
                                                          temp_literal(task.temp))),
                         !.allAbove = @ /\ (res.hw.reads # hw.reads
                                               => temp_lt(temp_literal(task.temp),
                                                          Temp(res.hw)))]
           /\ clock' = after
    /\ UNCHANGED <<task, facade, api>>

\* the scheduler stops pulling the task and drops it; what follows is the caller's
\* shutdown of the hardware
Drop ==
    /\ task.kind # "none"
    /\ task.kind # "dropped"
    /\ run.pc # "Created"
    /\ task' = [NoTask EXCEPT !.kind = "dropped"]
    /\ run' = NewRun
    /\ hw' = Fresh(hw)
    /\ UNCHANGED <<clock, facade, api>>

\* monotonic time passes
Tick ==
    /\ clock.now < Boot + MaxNow
    /\ clock' = [clock EXCEPT !.now = @ + 1]
    /\ UNCHANGED <<hw, task, run, facade, api>>

Next ==
    \/ \E op \in FacadeOps : FacadeOp(op)
    \/ \E t \in Tasks : MakeTask(t)
    \/ \E onPhase \in BOOLEAN, blocked \in 0..1 : Pull(onPhase, blocked)
    \/ Drop
    \/ Tick

Spec == Init /\ [][Next]_vars

----------------------------------------------------------------------------
(* Dispensing on its own: pump tasks over a dispenser whose slowest speed   *)
(* is either 2 mL/s or 0.1 mL/s, the second not a binary fraction.         *)

PumpLimitsSlow == {[minSpeed |-> 1, maxSpeed |-> 50]}

SlowVolumes == {3, 10}

SlowTimes == {100}

PumpTasks ==
    {Task("pump", 0, 0, tm, "X", v) : tm \in PumpTimes, v \in Volumes}
    \cup {Task("pump", 0, 0, tm, "X", v) : tm \in SlowTimes, v \in SlowVolumes}
    \cup {Task("pump", 0, 0, 0, p, v) : p \in {"Y", "Z", "Q"}, v \in {1, 20}}

InitPump ==
    /\ \E lim \in PumpLimits \cup PumpLimitsSlow :
          hw = [heating |-> FALSE, cooling |-> FALSE, temperature |-> DefaultTemp, err |-> temp_literal(DefaultTemp)[2],
                heaterPump |-> FALSE, stirring |-> FALSE, reads |-> 0,
                limits |-> lim, sent |-> <<>>, calls |-> <<>>, dispenses |-> <<>>]
    /\ \E s \in 0..MaxSpeedup :
          clock = [now |-> Boot, start_time |-> Boot,
                   hasSpeedup |-> s > 0, hardwareSpeedup |-> s]
    /\ task = NoTask
    /\ run = NewRun
    /\ facade = MicroLabHardware_init(TRUE, GoodDevices)
    /\ api = NoApi

NextPump ==
    \/ \E t \in PumpTasks : MakeTask(t)
    \/ \E blocked \in 0..1 : Pull(FALSE, blocked)
    \/ Tick

SpecPump == InitPump /\ [][NextPump]_vars

----------------------------------------------------------------------------
(* Properties *)

Called(op) == \E i \in DOMAIN hw.calls : hw.calls[i] = op

\* the last pull yielded a value (Wait or Done) rather than failing
Yielded == run.yielded \in {"Wait", "Done"}

\* C1: after any sequence of facade operations the heater and the cooler are never
\* both on, and every heater-on command reaching the controller comes right after a
\* cooler-off command, every cooler-on command right after a heater-off command.
C1_HeaterCoolerExclusive ==
    /\ ~(hw.heating /\ hw.cooling)
    /\ \A i \in DOMAIN hw.sent :
          /\ hw.sent[i] = "heater_on" => i > 1 /\ hw.sent[i - 1] = "cooler_off"
          /\ hw.sent[i] = "cooler_on" => i > 1 /\ hw.sent[i - 1] = "heater_off"

\* turn_heater_on was called directly: cooler-off then heater-on were sent
C1_Witness ==
    /\ task.kind = "none"
    /\ hw.calls = <<"turn_heater_on">>
    /\ hw.sent = <<"cooler_off", "heater_on">>
    /\ hw.heating /\ ~hw.cooling

\* the double sampled by the last pull, the task's target and the edges of its band
Sample == <<run.temp, run.terr>>

Target == temp_literal(task.temp)

BandLow == temp_add(Target, temp_literal(-task.tolerance))

BandHigh == temp_add(Target, temp_literal(task.tolerance))

\* C2: the first pull of heat(T) yields Done exactly when the sampled temperature is
\* at least T, and then the heater has been turned off; otherwise the heater has been
\* turned on, heater-off was not called, and the Wait is positive.
C2_HeatFirstPull ==
    (task.kind = "heat" /\ run.first /\ Yielded) =>
        /\ Sample = Temp(hw)
        /\ run.yielded = "Done" <=> temp_le(Target, Sample)
        /\ run.yielded = "Done" => Called("turn_heater_off") /\ ~hw.heating
        /\ run.yielded = "Wait" =>
              /\ Called("turn_heater_on") /\ ~Called("turn_heater_off")
              /\ hw.heating
              /\ run.wait[1] > 0 /\ run.wait[2] > 0

\* heat finished on its first pull with the temperature exactly at the target
C2_Witness ==
    /\ task.kind = "heat" /\ run.first
    /\ run.yielded = "Done" /\ Sample = Target
    /\ Called("turn_heater_off")

\* C3: every pull of cool(T) up to Done yields Done exactly when the sampled
\* temperature is at most T, and then the cooler has been turned off; otherwise the
\* cooler has been turned on, cooler-off was not called, and a Wait is returned.
C3_CoolEveryPull ==
    (task.kind = "cool" /\ Yielded) =>
        /\ Sample = Temp(hw)
        /\ run.yielded = "Done" <=> temp_le(Sample, Target)
        /\ run.yielded = "Done" => Called("turn_cooler_off") /\ ~hw.cooling
        /\ run.yielded = "Wait" =>
              /\ Called("turn_cooler_on") /\ ~Called("turn_cooler_off")
              /\ hw.cooling

\* cool finished on a later pull, after the cooler had been on
C3_Witness ==
    /\ task.kind = "cool" /\ ~run.first
    /\ run.yielded = "Done" /\ temp_le(Sample, Target)
    /\ Called("turn_cooler_off")

\* uptime measured from the task's start, as sampled by the last pull
Elapsed == run.uptime - run.start

\* C4: a pull of maintain_heat or maintain_cool made once the uptime measured from
\* the task's start has reached the time parameter yields Done with heater-off and
\* cooler-off both issued, whatever the temperature; no Wait is yielded at or after it.
C4_MaintainTimeBound ==
    (task.kind \in {"maintain_heat", "maintain_cool"} /\ run.yielded # "none") =>
        /\ (Yielded /\ Elapsed >= task.time) =>
              /\ run.yielded = "Done"
              /\ Called("turn_heater_off") /\ Called("turn_cooler_off")
              /\ ~hw.heating /\ ~hw.cooling
              /\ ~run.read
        /\ run.dones > 0 => run.yielded # "Wait"

\* maintain_cool ran past its time bound after having had the cooler on
C4_Witness ==
    /\ task.kind = "maintain_cool" /\ task.time > 0
    /\ run.yielded = "Done" /\ Elapsed >= task.time
    /\ ~run.first /\ temp_lt(BandHigh, Sample)
    /\ Called("turn_heater_off") /\ Called("turn_cooler_off")

\* C5: a pull of maintain_heat before the time bound yields a Wait, turns the heater
\* on exactly when the sampled temperature is below target - tolerance, and turns it
\* off (never on) when the temperature is inside or above the band.
C5_MaintainHeatBand ==
    (task.kind = "maintain_heat" /\ Yielded /\ Elapsed < task.time) =>
        /\ run.yielded = "Wait"
        /\ run.read /\ Sample = Temp(hw)
        /\ Called("turn_heater_on") <=> temp_lt(Sample, BandLow)
        /\ Called("turn_heater_on") => hw.heating /\ ~Called("turn_heater_off")
        /\ temp_le(BandLow, Sample) =>
              Called("turn_heater_off") /\ ~hw.heating

\* maintain_heat sampled the lower edge of the band and turned the heater off
C5_Witness ==
    /\ task.kind = "maintain_heat" /\ run.yielded = "Wait"
    /\ task.tolerance > 0
    /\ Sample = BandLow
    /\ Called("turn_heater_off")

\* C6: a pull of maintain_cool before the time bound yields a Wait, turns the cooler
\* on (without calling cooler-off) when the sampled temperature is above
\* target + tolerance, and does not turn it on when the temperature is within the band.
C6_MaintainCoolBand ==
    (task.kind = "maintain_cool" /\ Yielded /\ Elapsed < task.time) =>
        /\ run.yielded = "Wait"
        /\ run.read /\ Sample = Temp(hw)
        /\ temp_lt(BandHigh, Sample) =>
              Called("turn_cooler_on") /\ ~Called("turn_cooler_off") /\ hw.cooling
        /\ (temp_le(BandLow, Sample)
              /\ temp_le(Sample, BandHigh)) =>
              ~Called("turn_cooler_on") /\ ~hw.cooling

\* maintain_cool sampled a temperature above the band and turned the cooler on
C6_Witness ==
    /\ task.kind = "maintain_cool" /\ run.yielded = "Wait"
    /\ temp_lt(BandHigh, Sample)
    /\ Called("turn_cooler_on") /\ hw.cooling

\* C7: a maintain_pid task turns the heater pump on exactly once, on its first pull,
\* and off exactly once, on the pull where uptime - start >= time, which is the pull
\* that yields Done; on every pull before that the pump is on and pump-off has not
\* been called.
C7_PidHeaterPump ==
    (task.kind = "maintain_pid" /\ run.yielded # "none") =>
        /\ run.pumpOn = 1
        /\ Called("turn_heater_pump_on") <=> run.first
        /\ run.pumpOff = run.dones
        /\ Yielded => (run.yielded = "Done" <=> Elapsed >= task.time)
        /\ run.yielded = "Wait" =>
              hw.heaterPump /\ run.pumpOff = 0 /\ ~Called("turn_heater_pump_off")
        /\ run.yielded = "Done" => Called("turn_heater_pump_off") /\ ~hw.heaterPump
        /\ run.dones > 0 => ~hw.heaterPump /\ run.pumpOff = 1

\* maintain_pid was pulled several times and finished on a later pull
C7_Witness ==
    /\ task.kind = "maintain_pid" /\ task.time > 0
    /\ run.yielded = "Done" /\ ~run.first /\ run.pid.hasPrevious
    /\ run.pumpOn = 1 /\ run.pumpOff = 1 /\ ~hw.heaterPump

\* C8 (as amended): on every pull of maintain_pid a positive controller output never
\* turns the cooler on (cooler-off is called, the cooler ends off) and a negative
\* output never turns the heater on (heater-off is called, the heater ends off).
C8_PidOutputSign ==
    (task.kind = "maintain_pid" /\ run.yielded = "Wait") =>
        /\ run.pid.output > 0 =>
              ~Called("turn_cooler_on") /\ Called("turn_cooler_off") /\ ~hw.cooling
        /\ run.pid.output < 0 =>
              ~Called("turn_heater_on") /\ Called("turn_heater_off") /\ ~hw.heating

\* a positive output drove the heater in the on-phase, after an earlier sample
C8_Witness ==
    /\ task.kind = "maintain_pid" /\ run.yielded = "Wait" /\ ~run.first
    /\ run.pid.output > 0 /\ run.pid.integral # 0
    /\ Called("turn_heater_on") /\ Called("turn_cooler_off") /\ hw.heating

\* C8 (as stated): in addition, while every sample of the task has been below the
\* target cooler-on is never called, and while every sample has been above the
\* target heater-on is never called.
C8_Original ==
    /\ C8_PidOutputSign
    /\ (task.kind = "maintain_pid" /\ run.yielded = "Wait") =>
          /\ run.allBelow => ~Called("turn_cooler_on")
          /\ run.allAbove => ~Called("turn_heater_on")

\* C9: a pull of stir(time) made while the uptime measured from the task's start is
\* below time yields a Wait with the stirrer on and stirrer-off not called, the first
\* pull having turned the stirrer on; the first pull made once the time has elapsed
\* turns the stirrer off and yields Done.
C9_Stir ==
    (task.kind = "stir" /\ Yielded) =>
        /\ run.yielded = "Wait" <=> Elapsed < task.time
        /\ run.first => Called("turn_stirrer_on")
        /\ run.yielded = "Wait" => hw.stirring /\ ~Called("turn_stirrer_off")
        /\ run.yielded = "Done" => Called("turn_stirrer_off") /\ ~hw.stirring
        /\ run.dones <= 1

\* stir waited at least once and then finished when its time had elapsed
C9_Witness ==
    /\ task.kind = "stir" /\ task.time > 0
    /\ run.yielded = "Done" /\ ~run.first /\ Elapsed >= task.time
    /\ Called("turn_stirrer_off") /\ ~hw.stirring

\* nothing reached the facade or a device in the last pull
NoHardwareAction == hw.calls = <<>> /\ hw.sent = <<>> /\ hw.dispenses = <<>>

\* C10: every task goes Created -> Active -> Completed -> Exhausted: Wait values
\* only before Done, Done at most once, and every pull after Done fails with
\* StopIteration and performs no hardware action.
C10_TaskLifecycle ==
    (task.kind \notin {"none", "dropped"}) =>
        /\ run.pc = "Created" <=> run.yielded = "none"
        /\ run.pc = "Active" <=> run.yielded = "Wait"
        /\ run.pc = "Completed" <=> run.yielded = "Done"
        /\ run.pc = "Exhausted" <=> run.yielded \in {"StopIteration", "ValueError"}
        /\ run.dones <= 1
        /\ run.pc \in {"Created", "Active"} => run.dones = 0
        /\ run.pc = "Completed" => run.dones = 1
        /\ run.yielded = "StopIteration" => NoHardwareAction
        /\ run.pc = "Exhausted" =>
              \/ run.dones = 1
              \/ task.kind = "pump" /\ task.pump \notin PumpIds

\* a pump task yielded a Wait, then Done, and was pulled once more
C10_Witness ==
    /\ task.kind = "pump" /\ task.pump \in PumpIds
    /\ run.yielded = "StopIteration" /\ run.dones = 1
    /\ run.dispensed = task.volume

----------------------------------------------------------------------------
(* The scheduler loop: pull the task, sleep the wait it returned through    *)
(* the facade, pull again; when the task is done the next one is made.      *)

\* the scheduler pulls only after the last wait has been slept, and never past Done
SchedPull(onPhase, blocked) ==
    /\ run.slept
    /\ run.pc \in {"Created", "Active"}
    /\ Pull(onPhase, blocked)

\* the scheduler sleeps the wait: time.sleep blocks for at least the time asked,
\* dt whole seconds here, and refuses a negative one
SchedSleep(dt) ==
    /\ task.kind \notin {"none", "dropped"}
    /\ ~run.slept
    /\ run.wait[1] >= 0
    /\ LET asked == sleep(clock, run.wait)
       IN  /\ dt * asked[2] >= asked[1]
           /\ (dt - 1) * asked[2] < asked[1] + asked[2]
    /\ clock.now + dt <= Boot + MaxNow
    /\ clock' = [clock EXCEPT !.now = @ + dt]
    /\ run' = [run EXCEPT !.slept = TRUE]
    /\ UNCHANGED <<hw, task, facade, api>>

\* the task has yielded Done: the scheduler lets go of it
Finish ==
    /\ task.kind \notin {"none", "dropped"}
    /\ run.yielded = "Done"
    /\ task' = NoTask
    /\ run' = NewRun
    /\ hw' = Fresh(hw)
    /\ UNCHANGED <<clock, facade, api>>

NextSched ==
    \/ \E t \in Tasks : MakeTask(t)
    \/ \E onPhase \in BOOLEAN, blocked \in 0..1 : SchedPull(onPhase, blocked)
    \/ \E dt \in 0..MaxNow : SchedSleep(dt)
    \/ Finish

SpecSched == Init /\ [][NextSched]_vars

----------------------------------------------------------------------------
(* The life of the facade object and the routes that act on it: the object *)
(* is constructed, the hardware is reloaded, the caller sleeps, recipes    *)
(* are deleted.                                                            *)

\* load_hardware is called at most this many times on one object
MaxLoads == 2

\* the waits slept, in seconds
Sleeps == {<<n, 1>> : n \in 0..(2 * MaxNow)}

\* names of hardware configurations a select route may be given
HardwareNames == {"custom"}

InitLoad ==
    /\ hw = [heating |-> FALSE, cooling |-> FALSE, temperature |-> DefaultTemp, err |-> temp_literal(DefaultTemp)[2],
             heaterPump |-> FALSE, stirring |-> FALSE, reads |-> 0,
             limits |-> CHOOSE lim \in PumpLimits : TRUE,
             sent |-> <<>>, calls |-> <<>>, dispenses |-> <<>>]
    /\ \E s \in 0..MaxSpeedup :
          clock = [now |-> Boot, start_time |-> Boot,
                   hasSpeedup |-> s > 0, hardwareSpeedup |-> s]
    /\ task = NoTask
    /\ run = NewRun
    /\ \E logger \in BOOLEAN : facade = NoFacade(logger)
    /\ api = NoApi

\* MicroLabHardware(device_definitions)
Construct(device_definitions) ==
    /\ facade.state = "NONE"
    /\ facade.result = "none"
    /\ facade' = MicroLabHardware_init(facade.logger, device_definitions)
    /\ clock' = [clock EXCEPT !.start_time = clock.now]
    /\ UNCHANGED <<hw, task, run, api>>

\* The three routes that reload, /reloadHardware, /controllerHardware/<name> and
\* /labHardware/<name>, make two calls one after the other.  The first,
\* reload_config(), reads the configuration again, hardwareSpeedup with it
ReloadConfig(s) ==
    /\ facade.alive
    /\ facade.loads < MaxLoads
    /\ api.pc = "idle"
    /\ clock' = [clock EXCEPT !.hasSpeedup = s > 0, !.hardwareSpeedup = s]
    /\ facade' = [facade EXCEPT !.sleeping.steady = @ /\ Speedup(clock') = Speedup(clock)]
    /\ UNCHANGED <<hw, task, run>>

ReloadHardwareConfig(s) ==
    /\ ReloadConfig(s)
    /\ api' = _reload_hardware_config(api)

SelectControllerHardwareConfig(name, s) ==
    /\ ReloadConfig(s)
    /\ api' = _select_controller_hardware_config(api, name)

SelectLabHardwareConfig(name, s) ==
    /\ ReloadConfig(s)
    /\ api' = _select_lab_hardware_config(api, name)

\* The second call, reload_hardware(), loads the hardware again; the route answers
\* with its result
ReloadHardware(device_definitions) ==
    /\ api.pc = "reload_hardware"
    /\ facade' = load_hardware(facade, device_definitions)
    /\ api' = CASE api.route = "reloadHardware" -> _reload_hardware(api, facade')
              [] api.route = "controllerHardware" ->
                     _select_controller_hardware(api, facade')
              [] api.route = "labHardware" -> _select_lab_hardware(api, facade')
    /\ UNCHANGED <<hw, clock, task, run>>

\* facade.sleep(seconds) is entered: time.sleep is asked for seconds / speedup of
\* real time, the speedup being read once, now.  The clock counts whole seconds:
\* the sleeps drawn are those that ask for a whole number of them
SleepBegin(seconds) ==
    /\ facade.alive
    /\ ~facade.sleeping.on
    /\ LET asked == sleep(clock, seconds)
       IN  /\ asked[2] = 1
           /\ clock.now + asked[1] <= Boot + MaxNow
           /\ facade' = [facade EXCEPT
                             !.sleeping = [on |-> TRUE, seconds |-> seconds,
                                           until |-> clock.now + asked[1],
                                           from |-> uptime_seconds(clock),
                                           steady |-> TRUE]]
    /\ UNCHANGED <<hw, clock, task, run, api>>

\* time.sleep returns once the time asked of it has passed, then or later (the
\* process may be held up), whatever has happened to the configuration meanwhile
SleepEnd ==
    /\ facade.sleeping.on
    /\ clock.now >= facade.sleeping.until
    /\ facade' = [facade EXCEPT
                     !.sleeping.on = FALSE,
                     !.slept = [asked |-> facade.sleeping.seconds,
                                gained |-> uptime_seconds(clock) - facade.sleeping.from,
                                steady |-> facade.sleeping.steady]]
    /\ UNCHANGED <<hw, clock, task, run, api>>

NextLoad ==
    \/ \E d \in DeviceLists : Construct(d)
    \/ \E s \in 0..MaxSpeedup : ReloadHardwareConfig(s)
    \/ \E name \in HardwareNames, s \in 0..MaxSpeedup :
          SelectControllerHardwareConfig(name, s)
    \/ \E name \in HardwareNames, s \in 0..MaxSpeedup :
          SelectLabHardwareConfig(name, s)
    \/ \E d \in DeviceLists : ReloadHardware(d)
    \/ Tick

SpecLoad == InitLoad /\ [][NextLoad]_vars

----------------------------------------------------------------------------
(* The clock of a facade that is in use: a caller sleeps while requests    *)
(* reload the configuration and the hardware and time passes.              *)

\* the device lists a reload finds: that of the tests, and one without a stirrer
SleepLists ==
    {GoodDevices,
     <<Descriptor(Thermometer, {}),
       Descriptor("reactor-temperature-controller", {Thermometer}),
       Descriptor("reactor-reagent-dispenser", {})>>}

InitSleep ==
    /\ hw = [heating |-> FALSE, cooling |-> FALSE, temperature |-> DefaultTemp,
             err |-> temp_literal(DefaultTemp)[2],
             heaterPump |-> FALSE, stirring |-> FALSE, reads |-> 0,
             limits |-> CHOOSE lim \in PumpLimits : TRUE,
             sent |-> <<>>, calls |-> <<>>, dispenses |-> <<>>]
    /\ \E s \in 0..MaxSpeedup :
          clock = [now |-> Boot, start_time |-> Boot,
                   hasSpeedup |-> s > 0, hardwareSpeedup |-> s]
    /\ task = NoTask
    /\ run = NewRun
    /\ facade = MicroLabHardware_init(TRUE, GoodDevices)
    /\ api = NoApi

NextSleep ==
    \/ \E s \in 0..MaxSpeedup : ReloadHardwareConfig(s)
    \/ \E name \in HardwareNames, s \in 0..MaxSpeedup :
          SelectControllerHardwareConfig(name, s)
    \/ \E name \in HardwareNames, s \in 0..MaxSpeedup :
          SelectLabHardwareConfig(name, s)
    \/ \E d \in SleepLists : ReloadHardware(d)
    \/ \E seconds \in Sleeps : SleepBegin(seconds)
    \/ SleepEnd
    \/ Tick

SpecSleep == InitSleep /\ [][NextSleep]_vars

----------------------------------------------------------------------------
(* The recipe routes: recipes are known by name, their files are on disk,  *)
(* and requests to delete a recipe arrive.                                 *)

\* file names: a plain one, one with a blank, the same with "_" in its place, a
\* hidden one, one of two dots, one with an accent, one with a path in it
PlainName == <<"a">>

BlankName == <<"m", "y", " ", "r">>

JoinedName == <<"m", "y", "_", "r">>

HiddenName == <<".", "h">>

DotsName == <<".", ".">>

AccentName == <<"c", "a", "f", "é">>

PathName == <<"a", "/", "b">>

\* the recipes the listing may know
Recipes ==
    {[title |-> "aspirin", fileName |-> PlainName],
     [title |-> "caffeine", fileName |-> BlankName],
     [title |-> "lidocaine", fileName |-> HiddenName],
     [title |-> "nicotine", fileName |-> DotsName]}

\* names a request may carry: the titles of the recipes, and one that no recipe has
RequestNames == {r.title : r \in Recipes} \cup {"nothing"}

\* files that may lie in the recipes directory to begin with, however they came there
DiskNames == {PlainName, BlankName, JoinedName, HiddenName}

\* a directory that may lie in the recipes directory
DirNames == {<<"h">>}

\* uploads: the file name sent, the type declared, and what the file holds
Uploads ==
    [filename : {PlainName, BlankName, AccentName, PathName, HiddenName, DotsName},
     mimetype : {"application/json", "text/plain"},
     content : {"recipe", "invalid", "garbage"}]

InitRoutes ==
    /\ hw = [heating |-> FALSE, cooling |-> FALSE, temperature |-> DefaultTemp, err |-> temp_literal(DefaultTemp)[2],
             heaterPump |-> FALSE, stirring |-> FALSE, reads |-> 0,
             limits |-> CHOOSE lim \in PumpLimits : TRUE,
             sent |-> <<>>, calls |-> <<>>, dispenses |-> <<>>]
    /\ clock = [now |-> Boot, start_time |-> Boot, hasSpeedup |-> FALSE,
                hardwareSpeedup |-> 0]
    /\ task = NoTask
    /\ run = NewRun
    /\ facade = MicroLabHardware_init(TRUE, GoodDevices)
    /\ \E known \in SUBSET Recipes, files \in SUBSET DiskNames, dirs \in SUBSET DirNames :
          api = [NoApi EXCEPT !.known = known, !.files = files, !.dirs = dirs]

\* the /deleteRecipe/<name> route
DeleteRecipe(name) ==
    /\ api' = _delete_recipe(api, name)
    /\ UNCHANGED <<hw, clock, task, run, facade>>

\* the /uploadRecipe route
UploadRecipe(f) ==
    /\ api' = _upload_recipe(api, f)
    /\ UNCHANGED <<hw, clock, task, run, facade>>

NextRoutes ==
    \/ \E name \in RequestNames : DeleteRecipe(name)
    \/ \E f \in Uploads : UploadRecipe(f)

SpecRoutes == InitRoutes /\ [][NextRoutes]_vars

----------------------------------------------------------------------------
(* The simulated temperature controller on its own: it is constructed from *)
(* a configuration, its heater and cooler are switched through the facade, *)
(* and its temperature is read.                                            *)

\* configured start temperatures, in tenths of a degree: the -1 that get_temp takes
\* for "not yet initialized", freezing, just below, at and just above 24 C, and 25 C
SimTemps == {UnsetTemp, 0, 238, 240, 241, 250}

NoTempConfig == [hasTemp |-> FALSE, temp |-> 0]

SimConfigs == {NoTempConfig} \cup {[hasTemp |-> TRUE, temp |-> T] : T \in SimTemps}

SimOps == {"turn_heater_on", "turn_heater_off", "turn_cooler_on", "turn_cooler_off"}

InitSim ==
    /\ \E config \in SimConfigs :
          hw = [heating |-> FALSE, cooling |-> FALSE,
                temperature |-> SimulatedTempController_init(config),
                err |-> temp_literal(SimulatedTempController_init(config))[2],
                heaterPump |-> FALSE, stirring |-> FALSE, reads |-> 0,
                limits |-> CHOOSE lim \in PumpLimits : TRUE,
                sent |-> <<>>, calls |-> <<>>, dispenses |-> <<>>]
    /\ clock = [now |-> Boot, start_time |-> Boot, hasSpeedup |-> FALSE,
                hardwareSpeedup |-> 0]
    /\ task = NoTask
    /\ run = NewRun
    /\ facade = MicroLabHardware_init(TRUE, GoodDevices)
    /\ api = NoApi

\* facade.get_temp(), called directly; the temperature stored before the call is
\* remembered in run.before
GetTemp ==
    /\ task.kind = "none"
    /\ hw.reads < MaxReads
    /\ hw' = get_temp(Fresh(hw))
    /\ run' = [run EXCEPT !.before = Temp(hw)]
    /\ UNCHANGED <<clock, task, facade, api>>

NextSim ==
    \/ \E op \in SimOps : FacadeOp(op)
    \/ GetTemp

SpecSim == InitSim /\ [][NextSim]_vars

----------------------------------------------------------------------------
(* A cool task against the simulated controller, pulled by a scheduler     *)
(* that never stops pulling until the task is done.                        *)

\* start temperatures, in tenths of a degree: 0.9, 1, 24 (the default) and 25 C
CoolTemps == {9, 10, DefaultTemp, 250}

\* targets of cool, in tenths of a degree: -3, -1, 0 and 10 C
CoolTargets == {-30, -10, 0, 100}

InitCool ==
    /\ \E T \in CoolTemps :
          hw = [heating |-> FALSE, cooling |-> FALSE, temperature |-> T, err |-> temp_literal(T)[2],
                heaterPump |-> FALSE, stirring |-> FALSE, reads |-> 0,
                limits |-> CHOOSE lim \in PumpLimits : TRUE,
                sent |-> <<>>, calls |-> <<>>, dispenses |-> <<>>]
    /\ clock = [now |-> Boot, start_time |-> Boot, hasSpeedup |-> FALSE,
                hardwareSpeedup |-> 0]
    /\ \E T \in CoolTargets : task = Task("cool", T, 0, 0, "", 0)
    /\ run = NewRun
    /\ facade = MicroLabHardware_init(TRUE, GoodDevices)
    /\ api = NoApi

\* the scheduler pulls the cool task once more; the reads are not counted, and
\* run.before remembers the temperature stored before the pull's read
CoolPull ==
    /\ task.kind = "cool"
    /\ run.pc \in {"Created", "Active"}
    /\ LET res == cool(Fresh(hw), task, run)
       IN  /\ hw' = [res.hw EXCEPT !.reads = 0]
           /\ run' = [res.run EXCEPT !.first = (run.pc = "Created"),
                                     !.cooling0 = hw.cooling,
                                     !.before = Temp(hw)]
    /\ UNCHANGED <<clock, task, facade, api>>

NextCool == CoolPull

\* the scheduler keeps pulling: a pull that stays possible is taken
SpecCool == InitCool /\ [][NextCool]_vars /\ WF_vars(CoolPull)

----------------------------------------------------------------------------
(* Properties of pump tasks, under SpecPump *)

FracAdd(a, b) == Frac(a[1] * b[2] + b[1] * a[2], a[2] * b[2])

RECURSIVE SumWaits(_)
SumWaits(ws) == IF ws = <<>> THEN <<0, 1>> ELSE FracAdd(Head(ws), SumWaits(Tail(ws)))

ValidPump == task.kind = "pump" /\ task.pump \in PumpIds

\* the three branches, by the requested rate volume/time against the channel's limits
OverRange ==
    ValidPump /\ (task.time = 0 \/ task.volume > hw.limits.maxSpeed * task.time)

InRange ==
    /\ ValidPump /\ task.time > 0
    /\ hw.limits.minSpeed * task.time <= task.volume
    /\ task.volume <= hw.limits.maxSpeed * task.time

UnderRange ==
    ValidPump /\ task.time > 0 /\ task.volume < hw.limits.minSpeed * task.time

\* C11: every Wait a task yields has a duration of at least zero; in particular the
\* wait after a burst of an under-range pump task, interval - execTime, is never
\* negative whatever the measured execTime.
C11_WaitNonNegative == run.yielded = "Wait" => run.wait[1] >= 0

\* C12: for a pump task pulled to Done the volumes passed to the dispense calls add
\* up to the requested volume, and no dispense call is made once they do.
C12_VolumeConserved ==
    ValidPump =>
        /\ run.dones >= 1 => run.delivered = task.volume
        /\ run.late = 0

\* C13: for an under-range pump task pulled to Done, the seconds spent in bursts
\* (one per burst) plus the waits yielded add up to volume/rate, the requested time.
C13_AverageRate ==
    (UnderRange /\ run.dones >= 1) =>
        FracAdd(<<run.bursts, 1>>, SumWaits(run.waits)) = <<task.time, 1>>

\* C14: for an under-range pump task every full-burst pull yields
\* Wait(minSpeed/rate - 1 - execTime), the number of full bursts is the largest n
\* with n * burstVolume <= volume, and the leftover pull yields Wait(remaining/rate).
C14_BurstWaits ==
    UnderRange =>
        LET burstVolume == hw.limits.minSpeed
            n == task.volume \div burstVolume
        IN  /\ (run.yielded = "Wait" /\ run.stage = "burst") =>
                   /\ run.bursts <= n
                   /\ run.wait = Frac(hw.limits.minSpeed * task.time - task.volume
                                          - run.exec * task.volume, task.volume)
            /\ (run.yielded = "Wait" /\ run.stage = "finish") =>
                   /\ run.bursts = n
                   /\ run.wait = Frac((task.volume - n * burstVolume) * task.time,
                                      task.volume)
            /\ run.dones >= 1 => run.bursts = n

\* the task has been pulled at least once
Pulled == run.pc # "Created"

\* the one dispense call of the last pull, if it was for the whole volume
WholeVolumeCall(duration) ==
    hw.dispenses = <<[pump |-> task.pump, volume |-> task.volume,
                      duration |-> duration]>>

\* what the dispenser answers to that call, as a duration in lowest terms
Answered(duration) == Reduced(rd_dispense_time(hw, task.volume, duration))

\* C15: with no time parameter, or with volume/time above maxSpeed, the task makes
\* exactly one dispense call, for the whole volume and with no target duration,
\* yields exactly one Wait, equal to the duration that call returned, then Done.
C15_OverRange ==
    (OverRange /\ Pulled) =>
        /\ run.first =>
               /\ run.yielded = "Wait"
               /\ WholeVolumeCall(NoDuration)
               /\ run.wait = Answered(NoDuration)
        /\ ~run.first => run.dones = 1 /\ hw.dispenses = <<>>
        /\ run.ndispense = 1
        /\ Len(run.waits) = 1

C15_Witness ==
    /\ OverRange /\ task.time = 1 /\ task.volume = 60
    /\ run.yielded = "Done" /\ run.ndispense = 1 /\ run.waits = <<<<6, 5>>>>

\* C16: with minSpeed <= volume/time <= maxSpeed, either bound included, the task
\* makes exactly one dispense call, for the whole volume and targeting the requested
\* time, yields one Wait equal to the duration that call returned, then Done.
C16_InRange ==
    (InRange /\ Pulled) =>
        /\ run.first =>
               /\ run.yielded = "Wait"
               /\ WholeVolumeCall(task.time)
               /\ run.wait = Answered(task.time)
        /\ ~run.first => run.dones = 1 /\ hw.dispenses = <<>>
        /\ run.ndispense = 1
        /\ Len(run.waits) = 1

\* the requested rate is exactly minSpeed
C16_Witness ==
    /\ InRange /\ task.volume = hw.limits.minSpeed * task.time
    /\ run.yielded = "Done" /\ run.ndispense = 1 /\ run.waits = <<<<task.time, 1>>>>

\* an invalid pump id: the task is made without error, its first pull fails with the
\* invalid-pump error, and no dispense call is made
InvalidPumpFails ==
    (task.kind = "pump" /\ task.pump \notin PumpIds) =>
        /\ run.yielded \in {"none", "ValueError", "StopIteration"}
        /\ run.pc = "Created" <=> run.yielded = "none"
        /\ run.first <=> run.yielded = "ValueError"
        /\ run.ndispense = 0 /\ hw.dispenses = <<>> /\ run.waits = <<>>

\* the first pull has yielded a positive Wait and the second, if made, Done
WaitThenDone ==
    /\ run.first => run.yielded = "Wait" /\ run.wait[1] > 0
    /\ ~run.first => run.dones = 1
    /\ run.first \/ run.yielded \in {"Done", "StopIteration"}

\* C17, as claimed: a pump task for an id that is not a configured channel is
\* constructed without error, fails with the invalid-pump error on its first pull
\* and has made no dispense call; for each of X, Y and Z the first pull yields a
\* positive Wait and the second yields Done.
C17_Original ==
    /\ InvalidPumpFails
    /\ (ValidPump /\ Pulled) => WaitThenDone

\* C17, amended: a pump task for an id that is not a configured channel is
\* constructed without error, fails with the invalid-pump error on its first pull
\* and has made no dispense call; for each of X, Y and Z a task that has no time
\* parameter, or whose rate volume/time is at least the channel's minSpeed, yields a
\* positive Wait on its first pull and Done on its second.
C17_PumpIds ==
    /\ InvalidPumpFails
    /\ (ValidPump /\ ~UnderRange /\ Pulled) => WaitThenDone

\* pump(Z, volume) with no time parameter was pulled twice: one Wait, then Done
C17_Witness ==
    /\ task.kind = "pump" /\ task.pump = "Z" /\ task.time = 0
    /\ ~run.first /\ run.yielded = "Done" /\ run.dones = 1
    /\ Len(run.waits) = 1 /\ run.waits[1][1] > 0 /\ run.ndispense = 1

\* pump(X, volume = 1, time = 100) on a dispenser whose minSpeed is 0.1
SlowDispense ==
    /\ task = Task("pump", 0, 0, 100, "X", 10)
    /\ hw.limits.minSpeed = 1

\* C18: pump(X, volume = 1, time = 100) with minSpeed 0.1 yields ten Waits of about
\* 9 seconds, then one more Wait of about 0, then Done: eleven Waits in all.
C18_SlowDispense ==
    SlowDispense =>
        /\ Len(run.waits) <= 11
        /\ run.dones >= 1 => Len(run.waits) = 11 /\ run.bursts = 10
        /\ \A i \in DOMAIN run.waits :
              /\ i <= 10 => run.waits[i][1] <= 9 * run.waits[i][2]
              /\ (i <= 10 /\ run.execs = 0) => run.waits[i] = <<9, 1>>
              /\ i = 11 => run.waits[i] = <<0, 1>>

C18_Witness ==
    /\ SlowDispense /\ run.yielded = "Done" /\ run.execs = 0
    /\ Len(run.waits) = 11 /\ run.waits[10] = <<9, 1>> /\ run.waits[11] = <<0, 1>>

----------------------------------------------------------------------------
(* Properties of the scheduler loop, under SpecSched *)

\* what the hardware has been made to do: the actuators, the sensor reads, the
\* commands, calls and dispensations of the current operation
Hardware(h) ==
    <<h.heating, h.cooling, h.heaterPump, h.stirring, Temp(h), h.reads,
      h.sent, h.calls, h.dispenses>>

\* a step that is a pull of the task, and a step that is the sleep after a pull
PullStep == task' = task /\ run.slept /\ run' # run

SleepStep == task' = task /\ ~run.slept /\ run'.slept

\* C19: in the scheduler loop at most one task is active at a time; the hardware
\* actions of a pull are all done when its Wait or Done is returned, the returned
\* Wait is slept before the next pull, and nothing happens to the hardware between
\* two pulls.
C19_SchedulerOrder ==
    /\ [][(task' # task /\ task'.kind # "none") =>
              (task.kind = "none" /\ run' = NewRun)]_vars
    /\ [][(Hardware(hw') # Hardware(hw) /\ hw' # Fresh(hw)) =>
              (PullStep /\ run'.yielded # "none")]_vars
    /\ [][SleepStep =>
              /\ Hardware(hw') = Hardware(hw)
              /\ (uptime_seconds(clock') - uptime_seconds(clock)) * run.wait[2]
                     >= run.wait[1]]_vars
    /\ [][(task' = task /\ run' # run /\ ~SleepStep) => run.slept]_vars

\* a second pull, made after the first pull's wait was slept at twice the speed
C19_Witness ==
    /\ task.kind = "maintain_heat" /\ task.time = 2
    /\ run.yielded = "Done" /\ ~run.first
    /\ run.uptime - run.start >= 2
    /\ clock.hasSpeedup /\ clock.hardwareSpeedup = 2

----------------------------------------------------------------------------
(* Shutdown, under Spec *)

\* the last operation on the facade was turn_off_everything: called directly, or as
\* the caller's shutdown after a task was abandoned
ShutDown ==
    \/ task.kind = "dropped" /\ hw.calls # <<>>
    \/ task.kind = "none" /\ Called("turn_heater_off") /\ Called("turn_stirrer_off")

\* C20: from any reachable actuator state, a task abandoned at a Wait boundary
\* included, turn_off_everything leaves the heater, the heater pump, the cooler and
\* the stirrer all off, and calling it again changes nothing.
C20_TurnOffEverything ==
    ShutDown =>
        /\ ~hw.heating /\ ~hw.heaterPump /\ ~hw.cooling /\ ~hw.stirring
        /\ turn_off_everything(Fresh(hw)) = hw

\* shutdown after a heat task was abandoned with the heater on (one read, one
\* degree up)
C20_Witness ==
    /\ task.kind = "dropped" /\ ShutDown
    /\ Temp(hw) = temp_literal(DefaultTemp + 10) /\ hw.reads = 1
    /\ ~hw.heating /\ ~hw.cooling /\ ~hw.heaterPump /\ ~hw.stirring

----------------------------------------------------------------------------
(* The facade's clock, under SpecLoad *)

\* C21: uptime_seconds is (now - start) * speedup, the speedup being 1 when none is
\* configured, and a sleep of s seconds (s >= 0, positive speedup) advances the
\* uptime by at least s.
C21_UptimeAndSleep ==
    /\ uptime_seconds(clock) = (clock.now - clock.start_time) * Speedup(clock)
    /\ facade.slept.steady =>
          facade.slept.gained * facade.slept.asked[2] >= facade.slept.asked[1]

\* a sleep of 2 s at speedup 2 has blocked one real second: two seconds of uptime
C21_Witness ==
    /\ facade.alive /\ ~facade.sleeping.on
    /\ facade.slept.asked = <<2, 1>> /\ facade.slept.gained = 2
    /\ facade.slept.steady
    /\ clock.hasSpeedup /\ clock.hardwareSpeedup = 2
    /\ uptime_seconds(clock) >= 2

----------------------------------------------------------------------------
(* The device graph builder, under SpecLoad *)

\* the descriptor of a device of the list
DescriptorOf(device_definitions, id) ==
    CHOOSE d \in Range(device_definitions) : d.id = id

\* the list was accepted: its devices were constructed, in the order facade.built
Accepted == facade.loads > 0 /\ facade.built # <<>>

\* C22: for every accepted descriptor list, whatever its order, every device of the
\* list is constructed, once, and only after all the devices it depends on.
C22_DependenciesFirst ==
    Accepted =>
        /\ Len(facade.built) = Len(facade.device_definitions)
        /\ Range(facade.built) = Ids(facade.device_definitions)
        /\ \A i \in DOMAIN facade.built :
              DescriptorOf(facade.device_definitions, facade.built[i]).dependencies
                  \subseteq {facade.built[j] : j \in 1..(i - 1)}

\* a list that names the dispenser first and the thermometer last, each device
\* depending on the next one, was constructed from the thermometer up
C22_Witness ==
    /\ Accepted
    /\ facade.state = "INITIALIZED"
    /\ facade.device_definitions[1].id = "reactor-reagent-dispenser"
    /\ facade.device_definitions[1].dependencies = {"reactor-stirrer"}
    /\ facade.built[1] = Thermometer
    /\ facade.built[4] = "reactor-reagent-dispenser"

\* a dependency names an id that no descriptor of the list has
MissingDependency(device_definitions) ==
    \E d \in Range(device_definitions) : ~(d.dependencies \subseteq Ids(device_definitions))

\* some devices of the list each depend on another one of them
Cyclic(device_definitions) ==
    \E S \in (SUBSET Ids(device_definitions)) \ {{}} :
        \A d \in Range(device_definitions) : d.id \in S => d.dependencies \cap S # {}

\* C23: a list with a dependency id that is missing, or with a dependency cycle (two
\* devices that depend on each other included), fails with a configuration error:
\* the builder terminates and returns no device graph.
C23_Rejected ==
    (/\ facade.loads > 0
     /\ \/ MissingDependency(facade.device_definitions)
        \/ Cyclic(facade.device_definitions)) =>
        /\ facade.cause = ConfigError
        /\ facade.built = <<>>
        /\ facade.devices = facade.before.devices
        /\ facade.result # "True"

\* the thermometer and the temperature controller depend on each other: the load
\* has failed with a configuration error
C23_Witness ==
    /\ facade.loads > 0
    /\ Cyclic(facade.device_definitions)
    /\ ~MissingDependency(facade.device_definitions)
    /\ facade.device_definitions[1].dependencies = {"reactor-temperature-controller"}
    /\ facade.cause = ConfigError
    /\ facade.result = "False"

----------------------------------------------------------------------------
(* Loading the hardware, under SpecLoad *)

\* the facade was constructed from a device list that lacks one of the roles
LacksRole ==
    /\ facade.loads = 1
    /\ ~(Roles \subseteq Ids(facade.device_definitions))

\* C24: constructing the facade from a device set that lacks one of the three roles
\* fails with a configuration error: the load has failed and the error is retained.
C24_MissingRole ==
    LacksRole =>
        /\ facade.result = "False"
        /\ facade.state = "FAILED_TO_START"
        /\ facade.error # NoError

\* the call of load_hardware was a reload of an INITIALIZED facade, and it failed
FailedReload ==
    /\ facade.loads >= 2
    /\ facade.before.state = "INITIALIZED"
    /\ facade.result # "True"

\* C25: a reload that fails leaves the facade as it was: state INITIALIZED, and
\* devices, temp_controller, stirrer and reagent_dispenser those of before the call.
C25_ReloadKeepsPrevious ==
    FailedReload => Exposed(facade) = facade.before

\* devices and the three role bindings come from one load (none, before any)
OneLoad(f) ==
    /\ f.temp_controller = f.devices.load
    /\ f.stirrer = f.devices.load
    /\ f.reagent_dispenser = f.devices.load

\* C26: a load is all-or-nothing: after a load_hardware call that fails, in the
\* construction of the devices or in the lookup of a role, devices and the role
\* bindings are not a mix of the failed load's devices with bindings of an earlier
\* load or with unset bindings.
C26_AllOrNothing ==
    (facade.loads > 0 /\ facade.result # "True") => OneLoad(facade)

\* C27: a load_hardware call that returns has returned (True, '') exactly when it
\* has set the state to INITIALIZED and (False, message) exactly when it has set the
\* state to FAILED_TO_START and stored the exception in error; once it has
\* returned the state is never STARTING.
C27_ReturnMatchesState ==
    (facade.loads > 0 /\ facade.result # "raised") =>
        /\ facade.result \in {"True", "False"}
        /\ facade.result = "True" <=> facade.state = "INITIALIZED"
        /\ facade.result = "False" <=>
               /\ facade.state = "FAILED_TO_START"
               /\ facade.cause # NoError
               /\ facade.error = facade.cause
        /\ facade.state # "STARTING"

\* a reload of an INITIALIZED facade with a list that has no stirrer has returned
\* False
C27_Witness ==
    /\ facade.alive /\ facade.loads = 2
    /\ facade.before.state = "INITIALIZED"
    /\ facade.result = "False"
    /\ facade.state = "FAILED_TO_START"
    /\ facade.error = KeyError("reactor-stirrer")

----------------------------------------------------------------------------
(* The cooler during heat, under Spec *)

\* the first pull of heat(T) found the temperature below T
HeatNeeded == task.kind = "heat" /\ run.first /\ run.yielded = "Wait"

\* a cooler command reached the temperature controller during the last pull
CoolerCommanded ==
    \E i \in DOMAIN hw.sent : hw.sent[i] \in {"cooler_on", "cooler_off"}

\* C28, as claimed: on the first pull of heat(T) below T the heater is turned on, no
\* cooler-on or cooler-off command is issued, and the cooler is on or off as before.
C28_CoolerUntouched ==
    HeatNeeded =>
        /\ hw.heating
        /\ ~CoolerCommanded
        /\ hw.cooling = run.cooling0

\* C28, amended: on the first pull of heat(T) below T the task calls the facade's
\* turn_heater_on and neither of its cooler operations; the facade sends the
\* controller cooler-off and then heater-on, so the heater ends on and the cooler
\* off, whatever the cooler was before.
C28_HeaterOnCoolerOff ==
    HeatNeeded =>
        /\ temp_lt(Sample, Target)
        /\ Called("turn_heater_on")
        /\ ~Called("turn_cooler_on") /\ ~Called("turn_cooler_off")
        /\ hw.sent = <<"cooler_off", "heater_on">>
        /\ hw.heating /\ ~hw.cooling

\* heat started with the cooler on: the first pull has turned it off
C28_Witness ==
    /\ HeatNeeded
    /\ run.cooling0 /\ ~hw.cooling /\ hw.heating
    /\ hw.sent = <<"cooler_off", "heater_on">>

----------------------------------------------------------------------------
(* The simulated temperature, under SpecSim *)

\* the last operation was a read of the temperature: run.before is the temperature
\* stored before it, and the heater and cooler flags are those it was read under
LastRead == task.kind = "none" /\ hw.calls = <<"get_temp">>

\* the double get_temp leaves when it adds a change of delta tenths to the double
\* stored before
Changed(delta) == temp_add(run.before, temp_literal(delta))

\* C29: the controller starts at 24 C when no 'temp' is configured, and every
\* get_temp changes the stored temperature by +1 C with the heater flag on, by -1 C
\* with the cooler flag on and by -0.1 C with both flags off.
C29_SimulatedTemp ==
    /\ SimulatedTempController_init(NoTempConfig) = 240
    /\ LastRead =>
          Temp(hw) = Changed(IF hw.heating THEN 10 ELSE IF hw.cooling THEN -10 ELSE -1)

----------------------------------------------------------------------------
(* The delete-recipe route, under SpecRoutes *)

\* C30: the delete-recipe route always answers 'ok' or 'error'; for a name that
\* matches no recipe it answers 'error' with status 404 and removes no file.
C30_DeleteAnswers ==
    api.route = "deleteRecipe" =>
        /\ api.response \in {"ok", "error"}
        /\ ~get_recipe_by_name(api, api.name).found =>
               /\ api.response = "error"
               /\ api.status = 404
               /\ api.removed = {}

----------------------------------------------------------------------------
(* Termination of cool, under SpecCool *)

\* C31: against the simulated controller and a scheduler that keeps pulling,
\* cool(target_temp) eventually yields Done, for every target and every start
\* temperature.
C31_CoolTerminates == <>(run.yielded = "Done")

----------------------------------------------------------------------------
(* The facade over its life, under SpecLoad *)

\* C32: uptime_seconds never decreases over the life of a facade: no sleep, reload
\* of the hardware or reload of the configuration makes a later call return less
\* than an earlier one.
C32_UptimeMonotone ==
    [][(facade.alive /\ facade'.alive) =>
           uptime_seconds(clock') >= uptime_seconds(clock)]_vars

\* C33: in every state of the facade, error is set exactly when the state is
\* FAILED_TO_START; a load that succeeds after a failed one leaves no error.
C33_ErrorIffFailed ==
    facade.alive => (facade.error # NoError <=> facade.state = "FAILED_TO_START")

\* the constructor has run on a device list whose load fails
FailedConstruction == facade.loads = 1 /\ facade.result # "True"

\* C34: constructing the facade directly with a device list whose load fails never
\* raises: the instance exists, in state FAILED_TO_START with the cause stored in
\* error, whether or not a logger was installed on the class before.
C34_ConstructorNeverRaises ==
    FailedConstruction =>
        /\ facade.result = "False"
        /\ facade.alive
        /\ facade.state = "FAILED_TO_START"
        /\ facade.cause # NoError /\ facade.error = facade.cause

====
